---------------------------- MODULE Spec2Model ----------------------------
(***************************************************************************)
(* Model lifecycle pipeline of the Predictia API (src/app/ml_pipeline.py   *)
(* and the handlers of src/app/main.py).                                   *)
(*                                                                         *)
(* The registry is the file metadata.json, the bundles are the files       *)
(* models/<id>.pkl.  No lock guards either of them, so the file operations *)
(* are the steps: load_metadata, Path.exists, Path.unlink and joblib.load  *)
(* are one step each, save_metadata and joblib.dump are two, the open that *)
(* cuts the file to no byte and the write that fills it.  The steps of the *)
(* background training tasks (run_training is a plain function, so it      *)
(* runs in the thread pool) interleave freely with each other and with the *)
(* request handlers.  A request handler is a coroutine without an await:   *)
(* one worker process runs one handler at a time, several worker processes *)
(* on the same directory run one handler each.                             *)
(***************************************************************************)
EXTENDS Integers, Sequences, FiniteSets, Bags, TLC

(***************************************************************************)
(* Bounds of the model.                                                    *)
(***************************************************************************)
\* request handlers and background training tasks in flight at the same time
MaxInFlight == 2
\* requests the callers issue in one behaviour
MaxRequests == 3
\* worker processes serving the application
MaxWorkers == 2

\* model identifiers used by the callers
Ids == {"A", "B"}

(***************************************************************************)
(* JSON values of a record.  Every value carries the three fields so that  *)
(* any two values can be compared.  NaN is what pandas puts in a cell      *)
(* whose key is missing from the row.                                      *)
(***************************************************************************)
Num(n) == [t |-> "num", n |-> n, s |-> ""]
Str(s) == [t |-> "str", n |-> 0, s |-> s]
Bool(b) == [t |-> "bool", n |-> IF b THEN 1 ELSE 0, s |-> ""]
Null == [t |-> "null", n |-> 0, s |-> ""]
NaN == [t |-> "nan", n |-> 0, s |-> ""]
List == [t |-> "list", n |-> 0, s |-> ""]
Dict == [t |-> "dict", n |-> 0, s |-> ""]

\* one key of a row (a dict keeps its keys in insertion order)
KV(k, v) == [k |-> k, v |-> v]

Range(seq) == {seq[i] : i \in 1..Len(seq)}

(***************************************************************************)
(* Feature sanitizer.                                                      *)
(***************************************************************************)
is_flat_value(value) == value.t \notin {"list", "dict"}

columns_to_drop(data) ==
  {c.k : c \in {cell \in UNION {Range(data[r]) : r \in 1..Len(data)} :
                  ~is_flat_value(cell.v)}}

\* a sanitizer that takes out of each row only the arrays and objects
drop_multivalued_cells(data) ==
  [r \in 1..Len(data) |-> SelectSeq(data[r], LAMBDA c : is_flat_value(c.v))]

drop_multivalued_columns(data) ==
  IF data = <<>> THEN data
  ELSE [r \in 1..Len(data) |->
          SelectSeq(data[r], LAMBDA c : c.k \notin columns_to_drop(data))]

(***************************************************************************)
(* pandas.DataFrame(list of dicts): the columns are the keys in order of   *)
(* first appearance over the rows, a missing key gives a NaN cell.         *)
(***************************************************************************)
RECURSIVE AppendNewKeys(_, _)
AppendNewKeys(cols, row) ==
  IF row = <<>> THEN cols
  ELSE AppendNewKeys(IF Head(row).k \in Range(cols) THEN cols
                     ELSE Append(cols, Head(row).k), Tail(row))

RECURSIVE DataFrameColumns(_, _)
DataFrameColumns(cols, data) ==
  IF data = <<>> THEN cols
  ELSE DataFrameColumns(AppendNewKeys(cols, Head(data)), Tail(data))

Columns(data) == DataFrameColumns(<<>>, data)

Cell(row, col) ==
  IF \E i \in 1..Len(row) : row[i].k = col
  THEN (CHOOSE c \in Range(row) : c.k = col).v
  ELSE NaN

Series(data, col) == [r \in 1..Len(data) |-> Cell(data[r], col)]

\* dtype pandas infers for a column of scalars
Dtype(series) ==
  IF /\ \A i \in 1..Len(series) : series[i].t \in {"num", "null", "nan"}
     /\ \E i \in 1..Len(series) : series[i].t \in {"num", "nan"}
  THEN "numeric"
  ELSE IF \A i \in 1..Len(series) : series[i].t = "bool" THEN "bool"
  ELSE "object"

\* y.unique(): in a numeric column None has become NaN; True and 1 (False
\* and 0) are equal and hash alike, so they are one value
Unique(series) ==
  IF Dtype(series) = "numeric"
  THEN {IF v.t = "null" THEN NaN ELSE v : v \in Range(series)}
  ELSE {IF v.t = "bool" THEN Num(v.n) ELSE v : v \in Range(series)}

\* a drop that leaves the frame as it is
DropNothing(cols, col) == cols

\* df.drop(columns=[col])
DropColumn(cols, col) == SelectSeq(cols, LAMBDA c : c # col)

(***************************************************************************)
(* Model selector and trainer: the part of train_model before the bundle   *)
(* is written.  ClassThreshold is the "at most 10 distinct values" rule.   *)
(***************************************************************************)
ClassThreshold == 10

is_classification(y) ==
  \/ Dtype(y) \in {"object", "bool"}
  \/ Cardinality(Unique(y)) <= ClassThreshold

\* LabelEncoder refuses a column mixing strings with numbers or booleans
LabelEncoderRaises(y) ==
  /\ \E i \in 1..Len(y) : y[i].t = "str"
  /\ \E i \in 1..Len(y) : y[i].t \in {"num", "bool"}

\* the estimators refuse a matrix without columns, LogisticRegression
\* refuses a target with fewer than two classes
FitRaises(feature_cols, y) ==
  \/ feature_cols = <<>>
  \/ /\ is_classification(y)
     /\ \/ LabelEncoderRaises(y)
        \/ Cardinality(Unique(y)) < 2

\* what train_model has computed when it leaves the try block or raises
TrainResult(target_col, training_data) ==
  LET cleaned_data == drop_multivalued_columns(training_data)
      cols == Columns(cleaned_data)
      y == Series(cleaned_data, target_col)
      feature_cols == DropColumn(cols, target_col)
  IN  IF target_col \notin Range(cols)
      THEN [ok |-> FALSE, type |-> "", feature_cols |-> <<>>,
            error |-> "target_not_found"]
      ELSE IF FitRaises(feature_cols, y)
      THEN [ok |-> FALSE, type |-> "", feature_cols |-> <<>>,
            error |-> "fit_error"]
      ELSE [ok |-> TRUE,
            type |-> IF is_classification(y) THEN "classification"
                     ELSE "regression",
            feature_cols |-> feature_cols, error |-> ""]

(***************************************************************************)
(* Strings.  A Python str is the sequence of its code points; sorted() and *)
(* numpy order strings by code point.  CodePoints spells the strings the   *)
(* callers use.                                                            *)
(***************************************************************************)
CodePoints ==
  [s \in {"basic", "pro", "yes", "no", "vip", "-1.5e0"} |->
     CASE s = "basic" -> <<98, 97, 115, 105, 99>>
       [] s = "pro" -> <<112, 114, 111>>
       [] s = "yes" -> <<121, 101, 115>>
       [] s = "no" -> <<110, 111>>
       [] s = "vip" -> <<118, 105, 112>>
       [] s = "-1.5e0" -> <<45, 49, 46, 53, 101, 48>>]

\* "__MISSING__", the token that replaces a missing value
MissingToken == <<95, 95, 77, 73, 83, 83, 73, 78, 71, 95, 95>>

\* str(True), str(False)
TrueToken == <<84, 114, 117, 101>>
FalseToken == <<70, 97, 108, 115, 101>>

\* the decimal digits of a natural number
RECURSIVE Digits(_)
Digits(n) ==
  IF n < 10 THEN <<48 + n>>
  ELSE Append(Digits(n \div 10), 48 + (n % 10))

\* str(n) of an int; a float64 column prints its whole numbers as "n.0"
IntToStr(n) == IF n < 0 THEN <<45>> \o Digits(0 - n) ELSE Digits(n)
FloatToStr(n) == IntToStr(n) \o <<46, 48>>

\* a numeric column holding a missing value is float64
IsFloat(series) ==
  /\ Dtype(series) = "numeric"
  /\ \E i \in 1..Len(series) : series[i].t \in {"null", "nan"}

\* series.fillna("__MISSING__").astype(str), one cell
Stringify(series, v) ==
  CASE v.t \in {"null", "nan"} -> MissingToken
    [] v.t = "str" -> CodePoints[v.s]
    [] v.t = "bool" -> IF v.n = 1 THEN TrueToken ELSE FalseToken
    [] v.t = "num" -> IF IsFloat(series) THEN FloatToStr(v.n)
                      ELSE IntToStr(v.n)

\* a < b for two strings
RECURSIVE StrLess(_, _)
StrLess(a, b) ==
  IF b = <<>> THEN FALSE
  ELSE IF a = <<>> THEN TRUE
  ELSE IF Head(a) # Head(b) THEN Head(a) < Head(b)
  ELSE StrLess(Tail(a), Tail(b))

\* sorted(set of strings)
RECURSIVE Sorted(_)
Sorted(S) ==
  IF S = {} THEN <<>>
  ELSE LET least == CHOOSE x \in S : \A y \in S : x = y \/ StrLess(x, y)
       IN  <<least>> \o Sorted(S \ {least})

(***************************************************************************)
(* pd.to_numeric on a str: the float parser of pandas.  Blanks around the  *)
(* number are skipped; one sign, digits, a decimal point with digits, an   *)
(* exponent e or E with a sign and digits follow, at least one digit       *)
(* before the exponent; nothing else may be left.  What this does not      *)
(* read is nan, inf or infinity (signed, in any case), or it is not a      *)
(* number.  The numbers of the model are the integers of the checker, so   *)
(* the parse is exact on the strings whose digits stay below 2^31.         *)
(***************************************************************************)
\* a number that is not whole: n / 10^places, n not a multiple of 10
Decimal(n, places) == [t |-> "dec", n |-> n, s |-> "", places |-> places]

\* float("inf") and float("-inf")
Inf(negative) == [t |-> "inf", n |-> IF negative THEN 0 - 1 ELSE 1, s |-> ""]

\* isspace of the parser
Blanks == {9, 10, 11, 12, 13, 32}

RECURSIVE SkipBlanks(_)
SkipBlanks(str) ==
  IF str # <<>> /\ Head(str) \in Blanks THEN SkipBlanks(Tail(str)) ELSE str

\* bytes.lower()
ToLower(str) ==
  [i \in 1..Len(str) |-> IF str[i] \in 65..90 THEN str[i] + 32 ELSE str[i]]

\* an optional sign at the head of str
ParseSign(str) ==
  IF str # <<>> /\ Head(str) \in {43, 45}
  THEN [negative |-> Head(str) = 45, rest |-> Tail(str)]
  ELSE [negative |-> FALSE, rest |-> str]

\* the digits loop: the run of digits at the head of str read on to acc,
\* how many they are, and what follows them
RECURSIVE ParseDigits(_, _, _)
ParseDigits(acc, count, str) ==
  IF str # <<>> /\ Head(str) \in 48..57
  THEN ParseDigits(10 * acc + (Head(str) - 48), count + 1, Tail(str))
  ELSE [n |-> acc, count |-> count, rest |-> str]

RECURSIVE Pow10(_)
Pow10(k) == IF k = 0 THEN 1 ELSE 10 * Pow10(k - 1)

\* the value m * 10^e of the digits m, with its sign
RECURSIVE Scaled(_, _, _)
Scaled(negative, m, e) ==
  IF e >= 0
  THEN Num(IF negative THEN 0 - m * Pow10(e) ELSE m * Pow10(e))
  ELSE IF m % 10 = 0 THEN Scaled(negative, m \div 10, e + 1)
  ELSE Decimal(IF negative THEN 0 - m ELSE m, 0 - e)

\* nan, inf and infinity, which the float parser leaves to its caller
ParseSpecial(str) ==
  LET signed == ParseSign(ToLower(str))
  IN  IF signed.rest \in {<<105, 110, 102>>,
                          <<105, 110, 102, 105, 110, 105, 116, 121>>}
      THEN Inf(signed.negative)
      ELSE NaN

\* the number a string parses to, NaN when it does not parse
ParseNumber(str) ==
  LET sign == ParseSign(SkipBlanks(str))
      whole == ParseDigits(0, 0, sign.rest)
      point == whole.rest # <<>> /\ Head(whole.rest) = 46
      fraction == IF point THEN ParseDigits(whole.n, 0, Tail(whole.rest))
                  ELSE [n |-> whole.n, count |-> 0, rest |-> whole.rest]
      marked == fraction.rest # <<>> /\ Head(fraction.rest) \in {69, 101}
      esign == IF marked THEN ParseSign(Tail(fraction.rest))
               ELSE [negative |-> FALSE, rest |-> fraction.rest]
      edigits == ParseDigits(0, 0, esign.rest)
      \* an e without digits is not read
      exponent == IF marked /\ edigits.count > 0
                  THEN [n |-> IF esign.negative THEN 0 - edigits.n
                              ELSE edigits.n,
                        rest |-> edigits.rest]
                  ELSE [n |-> 0, rest |-> fraction.rest]
  IN  IF /\ whole.count + fraction.count > 0
         /\ SkipBlanks(exponent.rest) = <<>>
      THEN Scaled(sign.negative, fraction.n, exponent.n - fraction.count)
      ELSE ParseSpecial(str)

(***************************************************************************)
(* Feature encoder.                                                        *)
(***************************************************************************)
\* pd.to_numeric(series, errors="coerce").fillna(0), one cell
to_numeric(v) ==
  CASE v.t = "num" -> v.n
    [] v.t = "bool" -> v.n
    [] v.t = "str" -> LET parsed == ParseNumber(CodePoints[v.s])
                      IN  IF parsed.t = "num" THEN parsed.n
                          ELSE IF parsed.t \in {"dec", "inf"} THEN parsed
                          ELSE 0
    [] OTHER -> 0

\* pd.api.types.is_numeric_dtype: the bool dtype counts as numeric
is_numeric_dtype(series) == Dtype(series) \in {"numeric", "bool"}

\* LabelEncoder.fit: classes_ is the sorted array of the distinct labels
LabelEncoderFit(labels) == Sorted(Range(labels))

\* LabelEncoder.transform of one label of classes_: its index, from 0
LabelEncoderTransform(classes, label) ==
  (CHOOSE i \in 1..Len(classes) : classes[i] = label) - 1

\* the strings a column becomes before it is encoded
Labels(series) == [i \in 1..Len(series) |-> Stringify(series, series[i])]

\* preprocess_features(X): the encoder of every categorical column
feature_encoders(data, feature_cols) ==
  [col \in {c \in Range(feature_cols) : ~is_numeric_dtype(Series(data, c))}
     |-> LabelEncoderFit(Labels(Series(data, col)))]

\* the code predict gives a label: the stored code or the sentinel
SentinelCode == 0 - 1

\* an encoding that gives an unseen label the next free code
EncodeLabelMinting(classes, label) ==
  IF label \in Range(classes) THEN LabelEncoderTransform(classes, label)
  ELSE Len(classes)

EncodeLabel(classes, label) ==
  IF label \in Range(classes) THEN LabelEncoderTransform(classes, label)
  ELSE SentinelCode

\* predict, one column of the frame given to the model: a column missing
\* from the input is first set to the int 0 in every row
PredictColumn(cleaned_data, encoders, col) ==
  LET series == IF col \in Range(Columns(cleaned_data))
                THEN Series(cleaned_data, col)
                ELSE [r \in 1..Len(cleaned_data) |-> Num(0)]
  IN  [r \in 1..Len(cleaned_data) |->
         IF col \in DOMAIN encoders
         THEN EncodeLabel(encoders[col], Stringify(series, series[r]))
         ELSE to_numeric(series[r])]

\* predict from the sanitizer to model.predict(df): the frame, row by row
PredictFrame(bundle, input_data) ==
  LET cleaned_data == drop_multivalued_columns(input_data)
  IN  [r \in 1..Len(cleaned_data) |->
         [i \in 1..Len(bundle.feature_cols) |->
            PredictColumn(cleaned_data, bundle.feature_encoders,
                          bundle.feature_cols[i])[r]]]

(***************************************************************************)
(* Training requests the callers submit (TrainModelRequest without id).    *)
(***************************************************************************)
ChurnBatch ==
  << <<KV("age", Num(25)), KV("plan", Str("basic")), KV("churn", Num(0))>>,
     <<KV("age", Num(40)), KV("plan", Str("pro")), KV("churn", Num(1))>> >>

\* eleven distinct numeric targets
ScoreBatch ==
  [r \in 1..(ClassThreshold + 1) |->
     <<KV("x", Num(r)), KV("score", Num(10 * r))>>]

\* the target holds an array in one row and is dropped by the sanitizer
ArrayTargetBatch ==
  << <<KV("age", Num(25)), KV("churn", List)>>,
     <<KV("age", Num(40)), KV("churn", Num(1))>> >>

\* nothing but the target is left after the sanitizer
NoFeatureBatch ==
  << <<KV("tags", List), KV("churn", Num(0))>>,
     <<KV("tags", List), KV("churn", Num(1))>> >>

\* one class only: the fit raises
OneClassBatch ==
  << <<KV("age", Num(25)), KV("churn", Num(0))>>,
     <<KV("age", Num(40)), KV("churn", Num(0))>> >>

TrainRequests ==
  << [target_col |-> "churn", training_data |-> ChurnBatch],
     [target_col |-> "score", training_data |-> ScoreBatch],
     [target_col |-> "churn", training_data |-> ArrayTargetBatch],
     [target_col |-> "churn", training_data |-> NoFeatureBatch],
     [target_col |-> "churn", training_data |-> OneClassBatch] >>

ReqIds == 1..Len(TrainRequests)

\* the requests submitted together in one behaviour
RequestMixes == {{1, 3}, {2, 4}, {5}}

\* train_model's result for each request, computed once
Trained ==
  [q \in ReqIds |->
     TrainResult(TrainRequests[q].target_col, TrainRequests[q].training_data)]

(***************************************************************************)
(* State.                                                                  *)
(*   meta      metadata.json: identifier -> entry (Absent: no such key),   *)
(*             as json.loads gave it when the file last held a whole       *)
(*             document                                                    *)
(*   meta_file the bytes of metadata.json now: exists tells whether there  *)
(*             is such a file, parses whether                              *)
(*             json.loads accepts them (then they are json.dumps(meta)),   *)
(*             bytes how many they are                                     *)
(*   bundles   models/<id>.pkl: identifier -> bundle (NoBundle: no file,   *)
(*             Partial: a file joblib.dump has opened and not yet filled)  *)
(*   tasks     bag of background tasks run_training(id, ...) handed to     *)
(*             BackgroundTasks and not yet finished                        *)
(*   handlers  bag of request handlers in flight                           *)
(*   resp      the response returned by the step just taken (NoResp when   *)
(*             the step returned none)                                     *)
(*   issued    number of requests received so far                          *)
(*   offered   the training requests the callers of this behaviour submit  *)
(*   workers   bag of the worker processes, each with its own event loop:  *)
(*             where each one is in the import of ml_pipeline (boot: not   *)
(*             yet at the storage initialization, missing: has found no    *)
(*             metadata.json, write: has opened it to write {}) or that it *)
(*             is serving                                                  *)
(*   pipeline  what one training and the predictions after it compute, a   *)
(*             record of                                                   *)
(*     body          the rows of the request body the caller is putting    *)
(*                   together                                              *)
(*     cleaned_data  what the sanitizer has made of the body of the        *)
(*                   request just run                                      *)
(*     fitted        what train_model has put in the bundle (NoFit: not    *)
(*                   trained)                                              *)
(*     matrix        the frame the last predict has given to model.predict *)
(***************************************************************************)
VARIABLES meta, meta_file, bundles, tasks, handlers, resp, issued, offered,
          workers, pipeline

\* the fields of pipeline
body == pipeline.body
cleaned_data == pipeline.cleaned_data
fitted == pipeline.fitted
matrix == pipeline.matrix

vars ==
  <<meta, meta_file, bundles, tasks, handlers, resp, issued, offered, workers,
    pipeline>>

\* get_status's answer for a missing key
Absent ==
  [status |-> "not_found", updated_at |-> 0, type |-> "",
   feature_cols |-> <<>>, target_col |-> ""]

\* datetime.utcnow(): the microsecond of the clock, which is all of the
\* reading that the length of the stamp depends on.  The field updated_at of
\* an entry holds it.
Microseconds == {0, 380896}

NoBundle == [type |-> "", feature_cols |-> <<>>, target_col |-> "", req |-> 0]

\* models/<id>.pkl between joblib.dump's open(filename, "wb") and the end of
\* its writes: the file exists, joblib.load raises on it
Partial ==
  [type |-> "partial", feature_cols |-> <<>>, target_col |-> "", req |-> 0]

\* The field m of a handler or task is its local dict meta between
\* load_metadata and save_metadata, already modified the way the code
\* modifies it before the save (the modification reads nothing shared).
\* NoMeta: no dict is held.
NoMeta == [i \in Ids |-> Absent]

NoResp ==
  [op |-> "none", id |-> "", outcome |-> "", overlap |-> FALSE,
   bundle |-> NoBundle]

Response(op, id, outcome, overlap, bundle) ==
  [op |-> op, id |-> id, outcome |-> outcome, overlap |-> overlap,
   bundle |-> bundle]

StoredStatus == {"queued", "training", "ready", "failed"}

\* get_status(model_id) on the registry content m
get_status(m, model_id) == m[model_id]

\* update_status between its load and its save: the entry keeps its other
\* fields, a missing entry starts from {}
WithStatus(m, model_id, status, now) ==
  [m EXCEPT ![model_id] = [m[model_id] EXCEPT !.status = status,
                                              !.updated_at = now]]

\* the entry train_model writes on success
ReadyEntry(q, now) ==
  [status |-> "ready", updated_at |-> now, type |-> Trained[q].type,
   feature_cols |-> Trained[q].feature_cols,
   target_col |-> TrainRequests[q].target_col]

\* what joblib.dump writes on success
BundleOf(q) ==
  [type |-> Trained[q].type, feature_cols |-> Trained[q].feature_cols,
   target_col |-> TrainRequests[q].target_col, req |-> q]

(***************************************************************************)
(* The bytes of metadata.json.  save_metadata is Path.write_text: open(w)  *)
(* cuts the file to no byte, then the document is written from offset 0.   *)
(* A writer whose document is shorter than what another writer has put in  *)
(* the file meanwhile leaves the other's tail behind its own document.     *)
(***************************************************************************)
\* len(s) of the strings the registry holds
StrLen(s) ==
  CASE s = "" -> 0
    [] s \in {"A", "B", "x"} -> 1
    [] s \in {"age"} -> 3
    [] s \in {"plan", "tags"} -> 4
    [] s \in {"ready", "churn", "score"} -> 5
    [] s \in {"queued", "failed"} -> 6
    [] s \in {"training"} -> 8
    [] s \in {"regression"} -> 10
    [] s \in {"classification"} -> 14

\* len of datetime.isoformat() + "Z": isoformat leaves the fraction out
\* when the microsecond is 0
StampLen(microsecond) == IF microsecond = 0 THEN 20 ELSE 27

RECURSIVE ListLen(_)
\* the lines of the items of a list at indent 6, joined by ",\n"
ListLen(cols) ==
  IF cols = <<>> THEN 0
  ELSE 6 + StrLen(Head(cols)) + 2
       + (IF Len(cols) > 1 THEN 2 + ListLen(Tail(cols)) ELSE 0)

\* len of json.dumps(entry, indent=2) as the value of key model_id at
\* indent 2, the line of the key included: update_status writes status and
\* updated_at, train_model adds type, feature_cols and target_col
EntryLen(model_id, entry) ==
  (2 + StrLen(model_id) + 2 + 3 + 1)
  + (4 + 8 + 2 + StrLen(entry.status) + 2)
  + 2 + (4 + 12 + 2 + StampLen(entry.updated_at) + 2)
  + (IF entry.type = "" THEN 0
     ELSE 2 + (4 + 6 + 2 + StrLen(entry.type) + 2)
          + 2 + (4 + 14 + 2)
              + (IF entry.feature_cols = <<>> THEN 2
                 ELSE 2 + ListLen(entry.feature_cols) + 1 + 4 + 1)
          + 2 + (4 + 12 + 2 + StrLen(entry.target_col) + 2))
  + 1 + 3

RECURSIVE EntriesLen(_, _)
\* the entries of the keys in S, joined by ",\n"
EntriesLen(m, S) ==
  IF S = {} THEN 0
  ELSE LET id == CHOOSE i \in S : TRUE
       IN  EntryLen(id, m[id])
           + (IF S = {id} THEN 0 ELSE 2 + EntriesLen(m, S \ {id}))

\* len(json.dumps(meta, indent=2))
Size(m) ==
  LET keys == {i \in Ids : m[i] # Absent}
  IN  IF keys = {} THEN 2 ELSE 2 + EntriesLen(m, keys) + 2

\* load_metadata: json.loads raises JSONDecodeError on a file that holds no
\* whole document
load_raises == ~meta_file.parses

\* Path.write_text, open(w): the file is made, or cut to no byte
Truncate ==
  /\ meta_file' = [exists |-> TRUE, parses |-> FALSE, bytes |-> 0]
  /\ meta' = meta

\* Path.write_text, write and close: the document m goes to the head of the
\* file, what the file holds beyond it stays
WriteText(m) ==
  IF Size(m) >= meta_file.bytes
  THEN /\ meta' = m
       /\ meta_file' = [exists |-> TRUE, parses |-> TRUE, bytes |-> Size(m)]
  ELSE /\ meta' = meta
       /\ meta_file' = [meta_file EXCEPT !.parses = FALSE]

\* no train_model has run
NoFit ==
  [ok |-> FALSE, type |-> "", feature_cols |-> <<>>, target_col |-> "",
   feature_encoders |-> <<>>, error |-> ""]

\* the identifier of the one model the encoding pipeline is followed on
ModelId == "A"

\* the registry entry of that model, its updated_at left out
recorded ==
  [status |-> meta[ModelId].status, type |-> meta[ModelId].type,
   feature_cols |-> meta[ModelId].feature_cols,
   target_col |-> meta[ModelId].target_col]

\* the registry has no entry of that model
NoRecord ==
  [status |-> "not_found", type |-> "", feature_cols |-> <<>>,
   target_col |-> ""]

\* no request has been run on the encoding pipeline
Idle ==
  [body |-> <<>>, cleaned_data |-> <<>>, fitted |-> NoFit, matrix |-> <<>>]

Task(id, q, pc, m) == [id |-> id, req |-> q, pc |-> pc, m |-> m]

Handler(op, id, q, pc, m, overlap) ==
  [op |-> op, id |-> id, req |-> q, pc |-> pc, m |-> m, overlap |-> overlap]

\* how many times e is in the bag
Copies(bag, e) == IF e \in BagToSet(bag) THEN bag[e] ELSE 0

Put(bag, e) == bag (+) SetToBag({e})
Take(bag, e) == bag (-) SetToBag({e})
Replace(bag, old, new) == Put(Take(bag, old), new)

TasksOf(id) ==
  LET mine == {t \in BagToSet(tasks) : t.id = id}
  IN  BagCardinality([t \in mine |-> tasks[t]])

InFlight(op, id) == \E h \in BagToSet(handlers) : h.op = op /\ h.id = id

\* a new request can be taken on
CanStart ==
  /\ BagCardinality(handlers) < Copies(workers, "serving")
  /\ BagCardinality(handlers) + BagCardinality(tasks) < MaxInFlight
  /\ issued < MaxRequests

\* n worker processes that have not yet imported ml_pipeline
Booting(n) == IF n = 0 THEN EmptyBag ELSE [pc \in {"boot"} |-> n]

\* no metadata.json
NoFile == [exists |-> FALSE, parses |-> FALSE, bytes |-> 0]

\* the first start on an empty directory
Fresh ==
  /\ meta = [i \in Ids |-> Absent]
  /\ meta_file = NoFile
  /\ bundles = [i \in Ids |-> NoBundle]
  /\ tasks = EmptyBag
  /\ handlers = EmptyBag
  /\ resp = NoResp
  /\ issued = 0
  /\ offered \in RequestMixes
  /\ pipeline = Idle

Init == Fresh /\ workers = Booting(MaxWorkers)

\* uvicorn app.main:app, the documented way to run: one worker process
InitOneWorker == Fresh /\ workers = Booting(1)

(***************************************************************************)
(* Storage initialization: every worker process imports ml_pipeline before *)
(* it serves a request.                                                    *)
(***************************************************************************)
\* if not META_FILE.exists()
import_exists ==
  /\ Copies(workers, "boot") > 0
  /\ workers' = Replace(workers, "boot",
                        IF meta_file.exists THEN "serving" ELSE "missing")
  /\ resp' = NoResp
  /\ UNCHANGED <<meta, meta_file, bundles, tasks, handlers, issued, offered,
                 pipeline>>

\* META_FILE.write_text(json.dumps({})) opens the file
import_write_open ==
  /\ Copies(workers, "missing") > 0
  /\ Truncate
  /\ workers' = Replace(workers, "missing", "write")
  /\ resp' = NoResp
  /\ UNCHANGED <<bundles, tasks, handlers, issued, offered, pipeline>>

\* META_FILE.write_text(json.dumps({})) writes {}; the process serves
import_write ==
  /\ Copies(workers, "write") > 0
  /\ WriteText(NoMeta)
  /\ workers' = Replace(workers, "write", "serving")
  /\ resp' = NoResp
  /\ UNCHANGED <<bundles, tasks, handlers, issued, offered, pipeline>>

(***************************************************************************)
(* POST /training: create_model.                                           *)
(***************************************************************************)
\* the duplicate check: conflict unless get_status answers not_found
Accepts(existing) == existing.status = "not_found"

\* existing = get_status(model_id); a JSONDecodeError leaves the handler
\* and the exception handler answers 500
create_model(id, q) ==
  /\ CanStart
  /\ issued' = issued + 1
  /\ IF load_raises
     THEN /\ handlers' = handlers
          /\ resp' = Response("create", id, "internal_server_error", FALSE,
                              NoBundle)
     ELSE IF Accepts(get_status(meta, id))
     THEN /\ handlers' = Put(handlers,
                             Handler("create", id, q, "load", NoMeta, FALSE))
          /\ resp' = NoResp
     ELSE /\ handlers' = handlers
          /\ resp' = Response("create", id, "conflict", FALSE, NoBundle)
  /\ UNCHANGED <<meta, meta_file, bundles, tasks, offered, workers, pipeline>>

\* update_status(model_id, "queued"): load_metadata; a JSONDecodeError ends
\* the request with 500, nothing is written and no task is added
create_load(h) ==
  /\ h.op = "create" /\ h.pc = "load"
  /\ IF load_raises
     THEN /\ handlers' = Take(handlers, h)
          /\ resp' = Response("create", h.id, "internal_server_error", FALSE,
                              NoBundle)
     ELSE /\ \E now \in Microseconds :
               handlers' = Replace(handlers, h,
                                   [h EXCEPT !.pc = "save",
                                             !.m = WithStatus(meta, h.id,
                                                              "queued", now)])
          /\ resp' = NoResp
  /\ UNCHANGED <<meta, meta_file, bundles, tasks, issued, offered, workers,
                 pipeline>>

\* update_status(model_id, "queued"): save_metadata opens the file
create_save_open(h) ==
  /\ h.op = "create" /\ h.pc = "save"
  /\ Truncate
  /\ handlers' = Replace(handlers, h, [h EXCEPT !.pc = "write"])
  /\ resp' = NoResp
  /\ UNCHANGED <<bundles, tasks, issued, offered, workers, pipeline>>

\* update_status(model_id, "queued"): save_metadata writes the document
create_save_write(h) ==
  /\ h.op = "create" /\ h.pc = "write"
  /\ WriteText(h.m)
  /\ handlers' = Replace(handlers, h, [h EXCEPT !.pc = "add_task", !.m = NoMeta])
  /\ resp' = NoResp
  /\ UNCHANGED <<bundles, tasks, issued, offered, workers, pipeline>>

\* background_tasks.add_task(run_training, ...) and the 202 response
create_add_task(h) ==
  /\ h.op = "create" /\ h.pc = "add_task"
  /\ tasks' = Put(tasks, Task(h.id, h.req, "start", NoMeta))
  /\ handlers' = Take(handlers, h)
  /\ resp' = Response("create", h.id, "queued", FALSE, NoBundle)
  /\ UNCHANGED <<meta, meta_file, bundles, issued, offered, workers, pipeline>>

(***************************************************************************)
(* The background task: run_training, then train_model.                    *)
(***************************************************************************)
\* update_status(model_id, "training"): load_metadata; a JSONDecodeError
\* leaves run_training, which has no try: the task ends, train_model never
\* runs
run_training_load(t) ==
  /\ t.pc = "start"
  /\ IF load_raises
     THEN tasks' = Take(tasks, t)
     ELSE \E now \in Microseconds :
            tasks' = Replace(tasks, t,
                             [t EXCEPT !.pc = "set_training",
                                       !.m = WithStatus(meta, t.id, "training",
                                                        now)])
  /\ resp' = NoResp
  /\ UNCHANGED <<meta, meta_file, bundles, handlers, issued, offered, workers,
                 pipeline>>

\* update_status(model_id, "training"): save_metadata opens the file
run_training_save_open(t) ==
  /\ t.pc = "set_training"
  /\ Truncate
  /\ tasks' = Replace(tasks, t, [t EXCEPT !.pc = "set_training_write"])
  /\ resp' = NoResp
  /\ UNCHANGED <<bundles, handlers, issued, offered, workers, pipeline>>

\* update_status(model_id, "training"): save_metadata writes the document
run_training_save_write(t) ==
  /\ t.pc = "set_training_write"
  /\ WriteText(t.m)
  /\ tasks' = Replace(tasks, t, [t EXCEPT !.pc = "fit", !.m = NoMeta])
  /\ resp' = NoResp
  /\ UNCHANGED <<bundles, handlers, issued, offered, workers, pipeline>>

RECURSIVE CountIn(_, _)
\* how many elements of the bag are in S
CountIn(bag, S) ==
  IF S = {} THEN 0
  ELSE LET e == CHOOSE x \in S : TRUE
       IN  bag[e] + CountIn(bag, S \ {e})

\* every task of this identifier that is inside joblib.dump at one of the
\* places from is now at the place to
MarkDump(bag, id, from, to) ==
  LET S == BagToSet(bag)
      marked(t) == IF t.id = id /\ t.pc \in from
                   THEN [t EXCEPT !.pc = to] ELSE t
  IN  [x \in {marked(t) : t \in S} |->
         CountIn(bag, {t \in S : marked(t) = x})]

\* train_model up to joblib.dump's open(filename, "wb"): the fit succeeded,
\* the bundle file is created or cut to no byte, under the hands of every
\* other joblib.dump that is writing it
train_dump_open(t) ==
  /\ t.pc = "fit"
  /\ Trained[t.req].ok
  /\ bundles' = [bundles EXCEPT ![t.id] = Partial]
  /\ tasks' = Replace(MarkDump(tasks, t.id, {"dump"}, "dump_cut"), t,
                      [t EXCEPT !.pc = "dump"])
  /\ resp' = NoResp
  /\ UNCHANGED <<meta, meta_file, handlers, issued, offered, workers, pipeline>>

\* What models/<id>.pkl can hold when a joblib.dump of request q has made
\* its last write.  joblib.dump writes the pickle in several writes, each
\* at the offset the one before ended at.
\*   nobody has opened the file since this dump did: the pickle
\*   another dump has cut the file and not filled it: the pickle when this
\*     dump had written nothing before the cut, else a hole followed by
\*     the rest of the pickle
\*   another dump has cut the file and filled it with the same pickle: the
\*     pickle
\*   another dump has cut the file and filled it with another pickle: the
\*     pickle, the other pickle, or a mix of the two
Dumped(content, q, cut) ==
  IF ~cut \/ content = BundleOf(q) THEN {BundleOf(q)}
  ELSE {BundleOf(q), content, Partial}

\* joblib.dump makes its last write and closes.  A file that a delete has
\* unlinked since the open takes the bytes and is gone with the close.
train_dump_write(t) ==
  /\ t.pc \in {"dump", "dump_cut", "dump_unlinked"}
  /\ bundles' \in
       IF t.pc = "dump_unlinked" THEN {bundles}
       ELSE {[bundles EXCEPT ![t.id] = b] :
               b \in Dumped(bundles[t.id], t.req, t.pc = "dump_cut")}
  /\ tasks' = Replace(tasks, t, [t EXCEPT !.pc = "ready_load"])
  /\ resp' = NoResp
  /\ UNCHANGED <<meta, meta_file, handlers, issued, offered, workers, pipeline>>

\* train_model raises before joblib.dump and enters the except branch
train_raise(t) ==
  /\ t.pc = "fit"
  /\ ~Trained[t.req].ok
  /\ tasks' = Replace(tasks, t, [t EXCEPT !.pc = "failed_load"])
  /\ resp' = NoResp
  /\ UNCHANGED <<meta, meta_file, bundles, handlers, issued, offered, workers,
                 pipeline>>

\* meta = load_metadata() before the ready entry is written; the call is
\* inside the try, so a JSONDecodeError enters the except branch
train_ready_load(t) ==
  /\ t.pc = "ready_load"
  /\ IF load_raises
     THEN tasks' = Replace(tasks, t, [t EXCEPT !.pc = "failed_load"])
     ELSE \E now \in Microseconds :
            tasks' = Replace(tasks, t,
                             [t EXCEPT !.pc = "ready_save",
                                       !.m = [meta EXCEPT
                                                ![t.id] = ReadyEntry(t.req,
                                                                     now)]])
  /\ resp' = NoResp
  /\ UNCHANGED <<meta, meta_file, bundles, handlers, issued, offered, workers,
                 pipeline>>

\* meta[model_id] = {...ready...}; save_metadata(meta) opens the file
train_ready_save_open(t) ==
  /\ t.pc = "ready_save"
  /\ Truncate
  /\ tasks' = Replace(tasks, t, [t EXCEPT !.pc = "ready_write"])
  /\ resp' = NoResp
  /\ UNCHANGED <<bundles, handlers, issued, offered, workers, pipeline>>

\* save_metadata(meta) writes the document; the task ends
train_ready_save_write(t) ==
  /\ t.pc = "ready_write"
  /\ WriteText(t.m)
  /\ tasks' = Take(tasks, t)
  /\ resp' = NoResp
  /\ UNCHANGED <<bundles, handlers, issued, offered, workers, pipeline>>

\* except branch, update_status(model_id, "failed"): load_metadata; a
\* JSONDecodeError leaves train_model and run_training, the task ends
train_failed_load(t) ==
  /\ t.pc = "failed_load"
  /\ IF load_raises
     THEN tasks' = Take(tasks, t)
     ELSE \E now \in Microseconds :
            tasks' = Replace(tasks, t,
                             [t EXCEPT !.pc = "failed_save",
                                       !.m = WithStatus(meta, t.id, "failed",
                                                        now)])
  /\ resp' = NoResp
  /\ UNCHANGED <<meta, meta_file, bundles, handlers, issued, offered, workers,
                 pipeline>>

\* except branch, update_status(model_id, "failed"): save_metadata opens
\* the file
train_failed_save_open(t) ==
  /\ t.pc = "failed_save"
  /\ Truncate
  /\ tasks' = Replace(tasks, t, [t EXCEPT !.pc = "failed_write"])
  /\ resp' = NoResp
  /\ UNCHANGED <<bundles, handlers, issued, offered, workers, pipeline>>

\* except branch, update_status(model_id, "failed"): save_metadata writes
\* the document; the task returns the failure as a value and ends
train_failed_save_write(t) ==
  /\ t.pc = "failed_write"
  /\ WriteText(t.m)
  /\ tasks' = Take(tasks, t)
  /\ resp' = NoResp
  /\ UNCHANGED <<bundles, handlers, issued, offered, workers, pipeline>>

(***************************************************************************)
(* DELETE /models/{id}/delete: remove_model, delete_model.                 *)
(***************************************************************************)
\* every predict of this identifier in flight now overlaps a delete
MarkOverlap(bag, id) ==
  LET S == BagToSet(bag)
      marked(h) == IF h.op = "predict" /\ h.id = id
                   THEN [h EXCEPT !.overlap = TRUE] ELSE h
      from(x) == {h \in S : marked(h) = x /\ h # x}
  IN  [x \in {marked(h) : h \in S} |->
         (IF x \in S /\ marked(x) = x THEN bag[x] ELSE 0)
         + (IF from(x) # {} THEN bag[CHOOSE h \in from(x) : TRUE] ELSE 0)]

\* delete_model's check "model_id not in meta"
Missing(m, model_id) == m[model_id] = Absent

\* meta = load_metadata(): a JSONDecodeError ends the request with 500, a
\* missing key ends it with 404
delete_load(id) ==
  /\ CanStart
  /\ issued' = issued + 1
  /\ IF load_raises
     THEN /\ handlers' = handlers
          /\ resp' = Response("delete", id, "internal_server_error", FALSE,
                              NoBundle)
     ELSE IF Missing(meta, id)
     THEN /\ handlers' = handlers
          /\ resp' = Response("delete", id, "not_found", FALSE, NoBundle)
     ELSE /\ handlers' = Put(MarkOverlap(handlers, id),
                             Handler("delete", id, 0, "exists",
                                     [meta EXCEPT ![id] = Absent], FALSE))
          /\ resp' = NoResp
  /\ UNCHANGED <<meta, meta_file, bundles, tasks, offered, workers, pipeline>>

\* path.exists()
delete_exists(h) ==
  /\ h.op = "delete" /\ h.pc = "exists"
  /\ handlers' = Replace(handlers, h,
                         [h EXCEPT !.pc = IF bundles[h.id] # NoBundle
                                          THEN "unlink" ELSE "save"])
  /\ resp' = NoResp
  /\ UNCHANGED <<meta, meta_file, bundles, tasks, issued, offered, workers,
                 pipeline>>

\* path.unlink(): the name goes, a joblib.dump that has the file open goes
\* on writing to it.  FileNotFoundError when the file has gone meanwhile;
\* the exception handler answers 500 and the registry is not written
delete_unlink(h) ==
  /\ h.op = "delete" /\ h.pc = "unlink"
  /\ IF bundles[h.id] # NoBundle
     THEN /\ bundles' = [bundles EXCEPT ![h.id] = NoBundle]
          /\ tasks' = MarkDump(tasks, h.id, {"dump", "dump_cut"},
                               "dump_unlinked")
          /\ handlers' = Replace(handlers, h, [h EXCEPT !.pc = "save"])
          /\ resp' = NoResp
     ELSE /\ bundles' = bundles
          /\ tasks' = tasks
          /\ handlers' = Take(handlers, h)
          /\ resp' = Response("delete", h.id, "internal_server_error", FALSE,
                              NoBundle)
  /\ UNCHANGED <<meta, meta_file, issued, offered, workers, pipeline>>

\* meta.pop(model_id, None); save_metadata(meta) opens the file
delete_save_open(h) ==
  /\ h.op = "delete" /\ h.pc = "save"
  /\ Truncate
  /\ handlers' = Replace(handlers, h, [h EXCEPT !.pc = "write"])
  /\ resp' = NoResp
  /\ UNCHANGED <<bundles, tasks, issued, offered, workers, pipeline>>

\* save_metadata(meta) writes the document; the deleted response
delete_save_write(h) ==
  /\ h.op = "delete" /\ h.pc = "write"
  /\ WriteText(h.m)
  /\ handlers' = Take(handlers, h)
  /\ resp' = Response("delete", h.id, "deleted", FALSE, NoBundle)
  /\ UNCHANGED <<bundles, tasks, issued, offered, workers, pipeline>>

(***************************************************************************)
(* POST /predictions/{id}: make_prediction, predict.                       *)
(***************************************************************************)
\* the test "status != ready" of make_prediction and of predict
NotReady(status) == status # "ready"

\* make_prediction's own status check: 500 when get_status raises
\* JSONDecodeError, else 404, 422 or go on to predict
make_prediction(id) ==
  /\ CanStart
  /\ issued' = issued + 1
  /\ LET current_status == get_status(meta, id).status
         overlap == InFlight("delete", id)
     IN  IF load_raises
         THEN /\ handlers' = handlers
              /\ resp' = Response("predict", id, "internal_server_error",
                                  overlap, NoBundle)
         ELSE IF current_status = "not_found"
         THEN /\ handlers' = handlers
              /\ resp' = Response("predict", id, "not_found", overlap, NoBundle)
         ELSE IF NotReady(current_status)
         THEN /\ handlers' = handlers
              /\ resp' = Response("predict", id, "model_not_ready", overlap,
                                  NoBundle)
         ELSE /\ handlers' = Put(handlers,
                                 Handler("predict", id, 0, "status", NoMeta,
                                         overlap))
              /\ resp' = NoResp
  /\ UNCHANGED <<meta, meta_file, bundles, tasks, offered, workers, pipeline>>

\* predict: status = get_status(model_id).get("status"); a JSONDecodeError
\* leaves predict and make_prediction, the exception handler answers 500
predict_status(h) ==
  /\ h.op = "predict" /\ h.pc = "status"
  /\ IF load_raises
     THEN /\ handlers' = Take(handlers, h)
          /\ resp' = Response("predict", h.id, "internal_server_error",
                              h.overlap, NoBundle)
     ELSE IF NotReady(get_status(meta, h.id).status)
     THEN /\ handlers' = Take(handlers, h)
          /\ resp' = Response("predict", h.id, "prediction_failed: Model not ready",
                              h.overlap, NoBundle)
     ELSE /\ handlers' = Replace(handlers, h, [h EXCEPT !.pc = "exists"])
          /\ resp' = NoResp
  /\ UNCHANGED <<meta, meta_file, bundles, tasks, issued, offered, workers,
                 pipeline>>

\* predict: model_path.exists()
predict_exists(h) ==
  /\ h.op = "predict" /\ h.pc = "exists"
  /\ IF bundles[h.id] = NoBundle
     THEN /\ handlers' = Take(handlers, h)
          /\ resp' = Response("predict", h.id, "prediction_failed: Model not found",
                              h.overlap, NoBundle)
     ELSE /\ handlers' = Replace(handlers, h, [h EXCEPT !.pc = "load"])
          /\ resp' = NoResp
  /\ UNCHANGED <<meta, meta_file, bundles, tasks, issued, offered, workers,
                 pipeline>>

\* predict: joblib.load and the rest of predict, which touches no file;
\* FileNotFoundError when the file has gone meanwhile, an unpickling error
\* when joblib.dump has not filled it yet
predict_load(h) ==
  /\ h.op = "predict" /\ h.pc = "load"
  /\ handlers' = Take(handlers, h)
  /\ resp' = IF bundles[h.id] \in {NoBundle, Partial}
             THEN Response("predict", h.id, "internal_server_error",
                           h.overlap, NoBundle)
             ELSE Response("predict", h.id, "predictions", h.overlap,
                           bundles[h.id])
  /\ UNCHANGED <<meta, meta_file, bundles, tasks, issued, offered, workers,
                 pipeline>>

(***************************************************************************)
(* The server dies and is started again: what is in flight is lost, every  *)
(* worker process imports ml_pipeline again, the files stay as they are, a *)
(* file that was being written stays cut.                                  *)
(***************************************************************************)
Crash ==
  /\ \/ tasks # EmptyBag
     \/ handlers # EmptyBag
     \/ Copies(workers, "missing") + Copies(workers, "write") > 0
  /\ tasks' = EmptyBag
  /\ handlers' = EmptyBag
  /\ workers' = Booting(BagCardinality(workers))
  /\ resp' = NoResp
  /\ UNCHANGED <<meta, meta_file, bundles, issued, offered, pipeline>>

Next ==
  \/ \E id \in Ids, q \in offered : create_model(id, q)
  \/ \E h \in BagToSet(handlers) : create_load(h)
  \/ \E h \in BagToSet(handlers) : create_save_open(h)
  \/ \E h \in BagToSet(handlers) : create_save_write(h)
  \/ \E h \in BagToSet(handlers) : create_add_task(h)
  \/ \E t \in BagToSet(tasks) : run_training_load(t)
  \/ \E t \in BagToSet(tasks) : run_training_save_open(t)
  \/ \E t \in BagToSet(tasks) : run_training_save_write(t)
  \/ \E t \in BagToSet(tasks) : train_dump_open(t)
  \/ \E t \in BagToSet(tasks) : train_dump_write(t)
  \/ \E t \in BagToSet(tasks) : train_raise(t)
  \/ \E t \in BagToSet(tasks) : train_ready_load(t)
  \/ \E t \in BagToSet(tasks) : train_ready_save_open(t)
  \/ \E t \in BagToSet(tasks) : train_ready_save_write(t)
  \/ \E t \in BagToSet(tasks) : train_failed_load(t)
  \/ \E t \in BagToSet(tasks) : train_failed_save_open(t)
  \/ \E t \in BagToSet(tasks) : train_failed_save_write(t)
  \/ \E id \in Ids : delete_load(id)
  \/ \E h \in BagToSet(handlers) : delete_exists(h)
  \/ \E h \in BagToSet(handlers) : delete_unlink(h)
  \/ \E h \in BagToSet(handlers) : delete_save_open(h)
  \/ \E h \in BagToSet(handlers) : delete_save_write(h)
  \/ \E id \in Ids : make_prediction(id)
  \/ \E h \in BagToSet(handlers) : predict_status(h)
  \/ \E h \in BagToSet(handlers) : predict_exists(h)
  \/ \E h \in BagToSet(handlers) : predict_load(h)
  \/ import_exists
  \/ import_write_open
  \/ import_write
  \/ Crash

Spec == Init /\ [][Next]_vars

SpecOneWorker == InitOneWorker /\ [][Next]_vars

(***************************************************************************)
(* The service while no process dies and nobody deletes, every handler and *)
(* every background task that can take a step taking it in the end: the    *)
(* event loop runs a handler to its end, the thread pool runs every task   *)
(* it was given.                                                           *)
(***************************************************************************)
TaskStep ==
  \E t \in BagToSet(tasks) :
    \/ run_training_load(t)
    \/ run_training_save_open(t)
    \/ run_training_save_write(t)
    \/ train_dump_open(t)
    \/ train_dump_write(t)
    \/ train_raise(t)
    \/ train_ready_load(t)
    \/ train_ready_save_open(t)
    \/ train_ready_save_write(t)
    \/ train_failed_load(t)
    \/ train_failed_save_open(t)
    \/ train_failed_save_write(t)

HandlerStep ==
  \E h \in BagToSet(handlers) :
    \/ create_load(h)
    \/ create_save_open(h)
    \/ create_save_write(h)
    \/ create_add_task(h)
    \/ predict_status(h)
    \/ predict_exists(h)
    \/ predict_load(h)

ImportStep == import_exists \/ import_write_open \/ import_write

NextServing ==
  \/ \E id \in Ids, q \in offered : create_model(id, q)
  \/ \E id \in Ids : make_prediction(id)
  \/ TaskStep
  \/ HandlerStep
  \/ ImportStep

SpecServing ==
  /\ InitOneWorker
  /\ [][NextServing]_vars
  /\ WF_vars(TaskStep)
  /\ WF_vars(HandlerStep)
  /\ WF_vars(ImportStep)

(***************************************************************************)
(* The encoding pipeline of one model, followed without concurrency in one *)
(* process that has imported ml_pipeline: the caller puts a body together  *)
(* row by row, train_model runs on it and writes the bundle and the        *)
(* registry entry of the model, every later predict runs on its body with  *)
(* the entry and the bundle train_model has written.                       *)
(***************************************************************************)
\* rows the caller can choose freely for one body
MaxRows == 2

\* rows of the bodies: a categorical plan, a numeric age, tags that are an
\* array in one row, an object in another and a string in a third, a churn
\* that is a number, a string or a boolean, an age that is a string holding
\* a number, a plan that is null, keys in different orders, keys missing
Rows ==
  { <<KV("plan", Str("pro")), KV("age", Num(40)), KV("churn", Num(1))>>,
    <<KV("plan", Str("basic")), KV("age", Num(25)), KV("churn", Num(0))>>,
    <<KV("age", Num(31)), KV("tags", List), KV("churn", Num(1))>>,
    <<KV("tags", Str("vip")), KV("plan", Str("basic")),
      KV("churn", Str("yes"))>>,
    <<KV("churn", Bool(TRUE)), KV("plan", Null), KV("age", Num(40))>>,
    <<KV("plan", Str("vip")), KV("age", Str("-1.5e0")), KV("tags", Dict)>> }

\* the n-th of the rows whose churn values are all different numbers
NumberedRow(n) == <<KV("age", Num(n)), KV("churn", Num(10 * n))>>

\* enough numbered rows to pass the threshold of the model selector
Numbered == ClassThreshold + 1

\* the numbered rows at the head of a body
NumberedRows(rows) ==
  Cardinality({r \in 1..Len(rows) : rows[r] = NumberedRow(r)})

\* a body has no numbered row, or so many that its target stands at the
\* threshold of the model selector
AtThreshold(rows) ==
  NumberedRows(rows) \in {0, ClassThreshold, ClassThreshold + 1}

TargetCols == {"churn", "plan", "zip"}

\* metadata.json as the storage initialization leaves it on an empty
\* directory: {}
Imported == [exists |-> TRUE, parses |-> TRUE, bytes |-> Size(NoMeta)]

\* one process has imported ml_pipeline on an empty directory and has run
\* nothing else
InitPipeline ==
  /\ meta = NoMeta
  /\ meta_file = Imported
  /\ bundles = [i \in Ids |-> NoBundle]
  /\ tasks = EmptyBag
  /\ handlers = EmptyBag
  /\ resp = NoResp
  /\ issued = 0
  /\ offered = {}
  /\ workers = SetToBag({"serving"})
  /\ pipeline = Idle

\* the files
storage == <<meta, meta_file, bundles>>

\* the requests in flight and the processes
lifecycle == <<tasks, handlers, resp, issued, offered, workers>>

\* the caller adds a numbered row: before any other row, for training only
add_numbered_row ==
  /\ fitted = NoFit
  /\ recorded = NoRecord
  /\ Len(body) < Numbered
  /\ \A r \in 1..Len(body) : body[r] = NumberedRow(r)
  /\ pipeline' = [pipeline EXCEPT
                    !.body = Append(body, NumberedRow(Len(body) + 1))]
  /\ UNCHANGED <<storage, lifecycle>>

\* the caller adds a row of its choice; the locals of the request before
\* are gone
add_row(row) ==
  /\ AtThreshold(body)
  /\ fitted = NoFit => recorded = NoRecord
  /\ fitted # NoFit => fitted.ok
  /\ Cardinality({r \in 1..Len(body) : body[r] \in Rows}) < MaxRows
  /\ pipeline' = [pipeline EXCEPT !.body = Append(body, row),
                                  !.cleaned_data = <<>>,
                                  !.matrix = <<>>]
  /\ UNCHANGED <<storage, lifecycle>>

\* what train_model puts in the bundle, or the error it meets
Fit(target_col, training_data) ==
  LET result == TrainResult(target_col, training_data)
  IN  [ok |-> result.ok, type |-> result.type,
       feature_cols |-> result.feature_cols,
       target_col |-> IF result.ok THEN target_col ELSE "",
       feature_encoders |->
         IF result.ok
         THEN feature_encoders(drop_multivalued_columns(training_data),
                               result.feature_cols)
         ELSE <<>>,
       error |-> result.error]

\* the file joblib.dump writes for a bundle of the pipeline, whose body is
\* none of TrainRequests
Pickle(bundle) ==
  [type |-> bundle.type, feature_cols |-> bundle.feature_cols,
   target_col |-> bundle.target_col, req |-> 0]

\* train_model(ModelId, target_col, body) run alone from its first line to
\* its return, on a registry that parses: on success joblib.dump writes the
\* bundle, then the entry is written; when the try block raises,
\* update_status writes failed and no bundle is written
train_model(target_col) ==
  /\ fitted = NoFit
  /\ recorded = NoRecord
  /\ body # <<>>
  /\ AtThreshold(body)
  /\ ~load_raises
  /\ \E now \in Microseconds :
       LET bundle == Fit(target_col, body)
           m == IF bundle.ok
                THEN [meta EXCEPT ![ModelId] =
                        [status |-> "ready", updated_at |-> now,
                         type |-> bundle.type,
                         feature_cols |-> bundle.feature_cols,
                         target_col |-> target_col]]
                ELSE WithStatus(meta, ModelId, "failed", now)
       IN  /\ pipeline' =
                [pipeline EXCEPT
                   !.fitted = bundle,
                   !.cleaned_data = drop_multivalued_columns(body),
                   !.body = <<>>]
           /\ bundles' = IF bundle.ok
                         THEN [bundles EXCEPT ![ModelId] = Pickle(bundle)]
                         ELSE bundles
           /\ meta' = m
           /\ meta_file' = [exists |-> TRUE, parses |-> TRUE,
                            bytes |-> Size(m)]
  /\ UNCHANGED lifecycle

\* predict(ModelId, body) run alone: get_status answers ready, the bundle
\* file exists and joblib.load gives the bundle train_model has written
predict ==
  /\ ~load_raises
  /\ get_status(meta, ModelId).status = "ready"
  /\ bundles[ModelId] = Pickle(fitted)
  /\ body # <<>>
  /\ pipeline' = [pipeline EXCEPT
                    !.matrix = PredictFrame(fitted, body),
                    !.cleaned_data = drop_multivalued_columns(body),
                    !.body = <<>>]
  /\ UNCHANGED <<storage, lifecycle>>

NextPipeline ==
  \/ add_numbered_row
  \/ \E row \in Rows : add_row(row)
  \/ \E target_col \in TargetCols : train_model(target_col)
  \/ predict

SpecPipeline == InitPipeline /\ [][NextPipeline]_vars

(***************************************************************************)
(* Helpers of the properties.                                              *)
(***************************************************************************)
\* number of handlers of request op(id) in a bag of handlers
HandlersOf(bag, op, id) ==
  LET mine == {h \in BagToSet(bag) : h.op = op /\ h.id = id}
  IN  BagCardinality([h \in mine |-> bag[h]])

\* this step takes on a request op(id): it answers it at once or it adds
\* its handler
Arrives(op, id) ==
  /\ issued' = issued + 1
  /\ \/ resp'.op = op /\ resp'.id = id
     \/ HandlersOf(handlers', op, id) > HandlersOf(handlers, op, id)

\* this step is a save_metadata made on behalf of identifier id
SavesFor(id) ==
  \/ \E h \in BagToSet(handlers) :
       h.id = id /\ (create_save_write(h) \/ delete_save_write(h))
  \/ \E t \in BagToSet(tasks) :
       t.id = id /\ (\/ run_training_save_write(t)
                     \/ train_ready_save_write(t)
                     \/ train_failed_save_write(t))

LifecycleEdges ==
  {<<"not_found", "queued">>, <<"queued", "training">>,
   <<"training", "ready">>, <<"training", "failed">>}
  \cup {<<st, "not_found">> : st \in StoredStatus}

(***************************************************************************)
(* C1: the stored status of every identifier changes only along            *)
(* absent->queued, queued->training, training->ready, training->failed and *)
(* any stored status->absent.                                              *)
(***************************************************************************)
C1_StatusFollowsLifecycle ==
  [][\A id \in Ids :
       \/ meta'[id].status = meta[id].status
       \/ <<meta[id].status, meta'[id].status>> \in LifecycleEdges]_vars

(***************************************************************************)
(* C2: at most one training task accepted and not yet finished exists for  *)
(* an identifier.                                                          *)
(***************************************************************************)
C2_OneTrainingPerId == \A id \in Ids : TasksOf(id) <= 1

(***************************************************************************)
(* C3: a registry write made on behalf of one identifier leaves the entry  *)
(* of every other identifier as it is.                                     *)
(***************************************************************************)
C3_WritersKeepOtherEntries ==
  [][\A id \in Ids : meta'[id] # meta[id] => SavesFor(id)]_vars

(***************************************************************************)
(* C4: an identifier whose stored status is ready has a bundle.            *)
(***************************************************************************)
C4_ReadyHasBundle ==
  \A id \in Ids : meta[id].status = "ready" => bundles[id] # NoBundle

(***************************************************************************)
(* C5: a submit for an identifier that has an entry is answered with a     *)
(* conflict and changes neither the registry nor the bundles nor the       *)
(* tasks; a submit for an absent identifier is accepted, writes the entry  *)
(* with status queued and hands off exactly one training task.             *)
(***************************************************************************)
C5_SubmitOnlyWhenAbsent ==
  [][\A id \in Ids :
       /\ Arrives("create", id) /\ meta[id] # Absent
            => /\ resp' = Response("create", id, "conflict", FALSE, NoBundle)
               /\ handlers' = handlers
               /\ UNCHANGED <<meta, meta_file, bundles, tasks>>
       /\ Arrives("create", id) /\ meta[id] = Absent
            => /\ resp' = NoResp
               /\ InFlight("create", id)'
               /\ UNCHANGED <<meta, meta_file, bundles, tasks>>
       /\ \A h \in BagToSet(handlers) :
            h.op = "create" /\ h.id = id /\ Copies(handlers', h) < Copies(handlers, h)
              => \/ /\ h.pc \in {"load", "save"}
                    /\ HandlersOf(handlers', "create", id)
                         = HandlersOf(handlers, "create", id)
                    /\ UNCHANGED <<meta, tasks>>
                 \/ /\ h.pc = "write"
                    /\ meta_file'.parses /\ meta'[id].status = "queued"
                    /\ tasks' = tasks
                 \/ /\ h.pc = "add_task"
                    /\ resp' = Response("create", id, "queued", FALSE, NoBundle)
                    /\ \E t \in BagToSet(tasks') :
                         /\ t.id = id /\ t.pc = "start"
                         /\ tasks' = Put(tasks, t)
                 \/ handlers' = EmptyBag /\ tasks' = EmptyBag
       /\ BagCardinality(tasks') > BagCardinality(tasks)
            => resp'.op = "create" /\ resp'.outcome = "queued"]_vars

(***************************************************************************)
(* C6: a delete of an identifier that has an entry returns deleted, and    *)
(* when it returns the entry and the bundle of the identifier are gone.    *)
(***************************************************************************)
C6_DeleteRemovesBoth ==
  resp.op = "delete" /\ resp.outcome # "not_found"
    => /\ resp.outcome = "deleted"
       /\ meta[resp.id] = Absent
       /\ bundles[resp.id] = NoBundle

(***************************************************************************)
(* C7: a delete of an identifier without an entry returns not_found, never *)
(* deleted, and changes neither the registry nor any bundle; not_found is  *)
(* returned for no identifier that has an entry.                           *)
(***************************************************************************)
C7_DeleteOfMissing ==
  [][\A id \in Ids :
       /\ Arrives("delete", id) /\ meta[id] = Absent
            => /\ resp' = Response("delete", id, "not_found", FALSE, NoBundle)
               /\ UNCHANGED <<meta, meta_file, bundles, tasks, handlers>>
       /\ resp'.op = "delete" /\ resp'.id = id /\ resp'.outcome = "not_found"
            => Arrives("delete", id) /\ meta[id] = Absent]_vars

(***************************************************************************)
(* C8: a training attempt that fails (target column missing after the      *)
(* sanitizer, no feature column, error while fitting) never takes the      *)
(* success path, writes no bundle and leaves the bundles as they are, and  *)
(* its task ends only by storing status failed for its identifier: the     *)
(* failure does not leave the background task as an exception.             *)
(***************************************************************************)
C8_FailureIsRecorded ==
  /\ [](\A t \in BagToSet(tasks) :
          ~Trained[t.req].ok
            => t.pc \in {"start", "set_training", "set_training_write", "fit",
                         "failed_load", "failed_save", "failed_write"})
  /\ [][\A t \in BagToSet(tasks) :
          ~Trained[t.req].ok /\ Copies(tasks', t) < Copies(tasks, t)
            => /\ bundles' = bundles
               /\ t.pc = "fit"
                    => Copies(tasks', [t EXCEPT !.pc = "failed_load"])
                         > Copies(tasks, [t EXCEPT !.pc = "failed_load"])
               /\ (/\ t.pc \in {"failed_load", "failed_save", "failed_write"}
                   /\ BagCardinality(tasks') < BagCardinality(tasks))
                    => /\ t.pc = "failed_write"
                       /\ meta_file'.parses
                       /\ meta'[t.id].status = "failed"
                       /\ resp' = NoResp]_vars

(***************************************************************************)
(* C9: a predict that overlaps a delete of the same identifier and finds   *)
(* the model ready either returns predictions made with a bundle or        *)
(* answers not found.                                                      *)
(***************************************************************************)
C9_PredictDuringDelete ==
  resp.op = "predict" /\ resp.overlap /\ resp.outcome # "model_not_ready"
    => \/ resp.outcome = "not_found"
       \/ resp.outcome = "predictions" /\ resp.bundle # NoBundle

(***************************************************************************)
(* C10: a predict is answered not_found when the identifier is absent,     *)
(* model_not_ready when its status is queued, training or failed, and goes *)
(* on only when the status is ready; predict itself goes on only when the  *)
(* status is ready, answers "Model not found" when no bundle exists, and   *)
(* returns predictions only with the bundle it has loaded.                 *)
(***************************************************************************)
C10_PredictOutcomes ==
  [][\A id \in Ids :
       /\ Arrives("predict", id)
            => /\ meta[id].status = "not_found"
                    => resp'.outcome = "not_found" /\ handlers' = handlers
               /\ meta[id].status \in {"queued", "training", "failed"}
                    => resp'.outcome = "model_not_ready" /\ handlers' = handlers
               /\ meta[id].status = "ready"
                    => resp' = NoResp /\ InFlight("predict", id)'
               /\ resp'.bundle = NoBundle
       /\ \A h \in BagToSet(handlers) :
            /\ h.op = "predict" /\ h.id = id
            /\ Copies(handlers', h) < Copies(handlers, h)
            /\ issued' = issued
            /\ handlers' # EmptyBag \/ resp' # NoResp
            => /\ h.pc = "status"
                    => IF meta[id].status = "ready"
                       THEN resp' = NoResp
                       ELSE resp'.outcome = "prediction_failed: Model not ready"
               /\ h.pc = "exists"
                    => IF bundles[id] # NoBundle
                       THEN resp' = NoResp
                       ELSE resp'.outcome = "prediction_failed: Model not found"
               /\ h.pc = "load"
                    => IF bundles[id] # NoBundle
                       THEN /\ resp'.outcome = "predictions"
                            /\ resp'.bundle = bundles[id]
                       ELSE resp'.outcome = "internal_server_error"
       /\ resp'.op = "predict" /\ resp'.id = id
            => /\ resp'.outcome = "predictions" <=> resp'.bundle # NoBundle
               /\ resp'.outcome = "predictions"
                    => \E h \in BagToSet(handlers) :
                         /\ h.op = "predict" /\ h.id = id /\ h.pc = "load"
                         /\ handlers' = Take(handlers, h)]_vars

(***************************************************************************)
(* Helpers of the properties of the encoding pipeline, stated on the raw   *)
(* rows of a body.                                                         *)
(***************************************************************************)
\* the keys that occur in some row
KeysOf(data) == {c.k : c \in UNION {Range(data[r]) : r \in 1..Len(data)}}

\* the keys that hold an array or an object in some row
CompoundKeys(data) ==
  {k \in KeysOf(data) :
     \E r \in 1..Len(data) : \E i \in 1..Len(data[r]) :
       data[r][i].k = k /\ data[r][i].v.t \in {"list", "dict"}}

\* key a occurs in the rows before key b does, reading row after row
SeenBefore(data, a, b) ==
  \E r \in 1..Len(data) : \E i \in 1..Len(data[r]) :
    /\ data[r][i].k = a
    /\ \A q \in 1..r : \A j \in 1..Len(data[q]) :
         data[q][j].k = b => q = r /\ j > i

\* this step is a train_model that succeeds
Trains == fitted = NoFit /\ recorded = NoRecord /\ fitted'.ok

(***************************************************************************)
(* C11: after a training that succeeds, the feature schema of the registry *)
(* entry is the schema of the bundle; it holds exactly the keys of the     *)
(* batch that never hold an array or an object, without the target, each   *)
(* once, in the order in which the keys first occur in the batch.          *)
(***************************************************************************)
C11_FeatureSchema ==
  [][Trains =>
       LET schema == recorded'.feature_cols
       IN  /\ recorded'.status = "ready"
           /\ schema = fitted'.feature_cols
           /\ schema = bundles'[ModelId].feature_cols
           /\ recorded'.target_col = fitted'.target_col
           /\ Range(schema) = (KeysOf(body) \ CompoundKeys(body))
                                \ {recorded'.target_col}
           /\ \A i, j \in 1..Len(schema) :
                i < j => schema[i] # schema[j]
                         /\ SeenBefore(body, schema[i], schema[j])]_vars

\* the target was between two features and the first row began with tags
C11_TargetTakenOut ==
  /\ recorded.status = "ready"
  /\ recorded.target_col = "plan"
  /\ recorded.feature_cols = <<"tags", "churn", "age">>
  /\ bundles[ModelId].feature_cols = <<"tags", "churn", "age">>

\* this step runs a request on the body: train_model or predict
Runs == body # <<>> /\ body' = <<>>

(***************************************************************************)
(* C12: the sanitizer returns as many rows as it was given, in the same    *)
(* order; a key that holds an array or an object in at least one row is in *)
(* no row of the result, also not in the rows where it holds a scalar;     *)
(* every other cell of every row is in the result with its value, and the  *)
(* result holds nothing else.                                              *)
(***************************************************************************)
C12_SanitizerDropsColumns ==
  [][Runs =>
       /\ Len(cleaned_data') = Len(body)
       /\ \A r \in 1..Len(body) :
            /\ \A i \in 1..Len(cleaned_data'[r]) :
                 /\ cleaned_data'[r][i].k \notin CompoundKeys(body)
                 /\ cleaned_data'[r][i] \in Range(body[r])
            /\ \A i \in 1..Len(body[r]) :
                 body[r][i].k \notin CompoundKeys(body)
                   => body[r][i] \in Range(cleaned_data'[r])
            /\ Len(cleaned_data'[r])
                 = Cardinality({i \in 1..Len(body[r]) :
                                  body[r][i].k \notin CompoundKeys(body)})
            /\ \A i, j \in 1..Len(cleaned_data'[r]) :
                 i < j => \E a, b \in 1..Len(body[r]) :
                            /\ a < b
                            /\ body[r][a] = cleaned_data'[r][i]
                            /\ body[r][b] = cleaned_data'[r][j]]_vars

\* tags was an object in one row and the string vip in the other: the row
\* that held the string has lost it
C12_ScalarDroppedToo ==
  /\ Len(cleaned_data) = 2
  /\ cleaned_data[2] = <<KV("plan", Str("basic")), KV("churn", Str("yes"))>>
  /\ cleaned_data[1] = <<KV("plan", Str("vip")), KV("age", Str("-1.5e0"))>>

\* this step is a predict
Predicts == recorded.status = "ready" /\ Runs

\* the cell of key col in a row, NaN when the row has no such key
CellOf(row, col) ==
  IF \E i \in 1..Len(row) : row[i].k = col
  THEN (CHOOSE c \in Range(row) : c.k = col).v
  ELSE NaN

\* the column of key col that predict reads from the rows: the cells of the
\* rows when some row has the key
ColumnOf(rows, col) == [r \in 1..Len(rows) |-> CellOf(rows[r], col)]

(***************************************************************************)
(* C13: predict gives every row of a categorical column present in the     *)
(* input a code: the code of the label at training when the label was seen *)
(* at training, and otherwise -1, which is no code of training and no new  *)
(* code; predict returns a frame with a row for every input row and leaves *)
(* the bundle, with the labels of its encoders, as it was.                 *)
(***************************************************************************)
C13_UnseenLabel ==
  [][Predicts =>
       /\ fitted' = fitted
       /\ Len(matrix') = Len(body)
       /\ \A r \in 1..Len(body) : \A i \in 1..Len(fitted.feature_cols) :
            LET col == fitted.feature_cols[i]
                classes == fitted.feature_encoders[col]
                column == ColumnOf(cleaned_data', col)
                label == Stringify(column, column[r])
                code == matrix'[r][i]
            IN  col \in DOMAIN fitted.feature_encoders
                /\ col \in KeysOf(cleaned_data')
                  => /\ code \in (0 - 1)..(Len(classes) - 1)
                     /\ code # 0 - 1 => classes[code + 1] = label
                     /\ code = 0 - 1 => \A c \in 1..Len(classes) :
                                          classes[c] # label]_vars

\* plan was basic or pro at training; the row with plan vip got -1
C13_UnseenGotSentinel ==
  /\ fitted.ok
  /\ "plan" \in DOMAIN fitted.feature_encoders
  /\ Len(fitted.feature_encoders["plan"]) = 2
  /\ \E r \in 1..Len(matrix) : \E i \in 1..Len(fitted.feature_cols) :
       /\ fitted.feature_cols[i] = "plan"
       /\ CellOf(cleaned_data[r], "plan") = Str("vip")
       /\ matrix[r][i] = 0 - 1

\* the cells of the target in the rows (NaN where a row has no target)
TargetCells(rows, target_col) == Range(ColumnOf(rows, target_col))

\* how many distinct numbers a numeric target holds
DistinctNumbers(rows, target_col) ==
  Cardinality({v.n : v \in {c \in TargetCells(rows, target_col) : c.t = "num"}})

(***************************************************************************)
(* C14: a training that succeeds writes one kind to the entry and to the   *)
(* bundle: classification when the target holds a string or a boolean,     *)
(* classification when the target is numeric with at most 10 distinct      *)
(* values, regression when it is numeric with 11 or more; a training that  *)
(* fails writes no kind.                                                   *)
(***************************************************************************)
C14_KindRule ==
  [][fitted = NoFit /\ recorded = NoRecord /\ Runs =>
       LET target_col == recorded'.target_col
           cells == TargetCells(body, target_col)
           kind == recorded'.type
       IN  /\ fitted'.type = kind
           /\ bundles'[ModelId].type = kind
           /\ ~fitted'.ok => kind = "" /\ recorded'.status = "failed"
           /\ fitted'.ok =>
                /\ kind \in {"classification", "regression"}
                /\ (\E c \in cells : c.t \in {"str", "bool"})
                     => kind = "classification"
                /\ (\A c \in cells : c.t \in {"num", "null", "nan"})
                     => /\ DistinctNumbers(body, target_col) <= 10
                             => kind = "classification"
                        /\ DistinctNumbers(body, target_col) >= 11
                             => kind = "regression"]_vars

(***************************************************************************)
(* C15: while a training task has been handed off and has not started, the *)
(* stored status of its identifier is training; while a task has not       *)
(* finished its fit, the stored status of its identifier is neither ready  *)
(* nor failed.                                                             *)
(***************************************************************************)
C15_TrainingBeforeHandOff ==
  \A t \in BagToSet(tasks) :
    /\ t.pc = "start" => meta[t.id].status = "training"
    /\ t.pc \in {"start", "set_training", "fit"}
         => meta[t.id].status \notin {"ready", "failed"}

(***************************************************************************)
(* C16: while no process dies and nobody deletes, every accepted training  *)
(* leaves the statuses queued and training: once every handler and every   *)
(* background task has run to its end, and so nothing is left that could   *)
(* write the registry, no entry has status queued or training.             *)
(***************************************************************************)
C16_TrainingSettles ==
  tasks = EmptyBag /\ handlers = EmptyBag
    => \A id \in Ids : meta[id].status \notin {"queued", "training"}

(***************************************************************************)
(* C17: the frame predict gives to the model has a row for every input row *)
(* and in every row one value for every column of the stored schema, in    *)
(* the order of the schema; a column of the schema that no row of the      *)
(* sanitized input holds is 0 in every row, whether it was numeric or      *)
(* categorical at training.                                                *)
(***************************************************************************)
C17_AbsentColumnZero ==
  [][Predicts =>
       /\ Len(matrix') = Len(body)
       /\ \A r \in 1..Len(matrix') :
            /\ Len(matrix'[r]) = Len(fitted.feature_cols)
            /\ \A i \in 1..Len(fitted.feature_cols) :
                 fitted.feature_cols[i] \notin KeysOf(cleaned_data')
                   => matrix'[r][i] = 0]_vars

\* the row in which a label occurs first in a column of labels
FirstRow(labels, label) ==
  CHOOSE r \in 1..Len(labels) :
    labels[r] = label /\ \A q \in 1..(r - 1) : labels[q] # label

(***************************************************************************)
(* C18: the encoder fitted on a categorical feature column gives the       *)
(* distinct labels of the column (its values as strings, a missing value   *)
(* as __MISSING__) the codes 0..n-1 in the order in which the labels first *)
(* occur in the rows: a label that occurs first in an earlier row has the  *)
(* smaller code.                                                           *)
(***************************************************************************)
C18_FirstOccurrenceCodes ==
  [][Trains =>
       \A col \in DOMAIN fitted'.feature_encoders :
         LET column == ColumnOf(cleaned_data', col)
             labels == [r \in 1..Len(column) |-> Stringify(column, column[r])]
             classes == fitted'.feature_encoders[col]
         IN  /\ Range(classes) = Range(labels)
             /\ Len(classes) = Cardinality(Range(labels))
             /\ \A a, b \in 1..Len(classes) :
                  a < b => FirstRow(labels, classes[a])
                             < FirstRow(labels, classes[b])]_vars

(***************************************************************************)
(* C19: no bundle is stored for an identifier that has no registry entry.  *)
(***************************************************************************)
C19_NoBundleWithoutEntry ==
  \A id \in Ids : meta[id] = Absent => bundles[id] = NoBundle

====
